---- MODULE Spec2Model ----
(***************************************************************************)
(* Brother PT label print service: BrotherPTPrintService/                  *)
(* brother_docker_api.py (BrotherDockerAPI and its request handlers) and   *)
(* brother_fastapi.py (BrotherTechAPI and its request handlers).           *)
(*                                                                         *)
(* Spec      the service: startup initialisation, then requests handled    *)
(*           by the single event loop, each print job saving a backup and  *)
(*           sending the raster to the printer.                            *)
(* SpecBand  combine_images_to_continuous_band applied to bounded raster   *)
(*           lists, together with the batch request made of these labels.  *)
(* SpecLabel create_cable_label, create_device_label, create_warning_label *)
(*           and create_simple_text_label applied to bounded requests,     *)
(*           text metrics and tapes.                                       *)
(* SpecCustom create_custom_label applied to bounded element lists on a    *)
(*           small canvas, together with the print-custom request made of  *)
(*           these elements.                                               *)
(***************************************************************************)
EXTENDS Integers, Sequences, FiniteSets, TLC

VARIABLES
    variant,        \* "docker" (brother_docker_api.py) or "tech" (brother_fastapi.py)
    init_pc,        \* startup_event: "attempt" (__init__ at the head of a loop
                    \* iteration), "sleep" (__init__ in time.sleep(2)), "done"
    attempt,        \* __init__: the loop variable `attempt` (0-based), a local
                    \* that is gone (Unset) once __init__ has returned
    service,        \* global printer_service: FALSE = None, TRUE = the service object
    has_printer,    \* self.printer has been assigned
    is_ready,       \* self.is_ready
    tape_width,     \* self.tape_width
    print_height,   \* self.print_height
    clock,          \* the latest datetime.now() read, in ticks of 1/TicksPerSecond second
    jobs,           \* the requests received so far, in arrival order
    backups,        \* the backup directory: file name -> stored raster
    sends,          \* the calls of printer.print_image made so far, in order
    images,         \* SpecBand: the rasters handed to combine_images_to_continuous_band
    band,           \* SpecBand: what combine_images_to_continuous_band returned or raised
    label_request,  \* SpecLabel: the label request handed to a create_*_label method
    font_metrics,   \* SpecLabel: what the installed fonts measure (ImageFont, textbbox)
    label_image,    \* SpecLabel: what the create_*_label method returned
    custom_request, \* SpecCustom: the CustomLabelRequest (settings and elements)
    custom_image    \* SpecCustom: what create_custom_label returned or raised

vars == <<variant, init_pc, attempt, service, has_printer, is_ready,
          tape_width, print_height, clock, jobs, backups, sends, images, band,
          label_request, font_metrics, label_image,
          custom_request, custom_image>>

printerVars == <<service, has_printer, is_ready, tape_width, print_height>>
initVars == <<variant, init_pc, attempt>>
bandVars == <<images, band>>
labelVars == <<label_request, font_metrics, label_image>>
customVars == <<custom_request, custom_image>>
renderVars == <<bandVars, labelVars, customVars>>

\* The values of the rendering variables where no rendering is modelled.
NoRequest == [kind |-> "none"]
NoFonts == [loaded |-> "none"]
NoLabel == [err |-> "pending", w |-> 0, h |-> 0, lines |-> <<>>]
NoCustom == [width |-> 0, height |-> 0, elements |-> <<>>]
NotCombined == [err |-> "pending", w |-> 0, h |-> 0, px |-> <<>>]
BandIdle == images = <<>> /\ band = NotCombined
LabelIdle == label_request = NoRequest /\ font_metrics = NoFonts /\ label_image = NoLabel
CustomIdle == custom_request = NoCustom /\ custom_image = NotCombined

----------------------------------------------------------------------------
(* Bounds of the model *)

MaxJobs == 2            \* requests per behaviour
MaxClock == 2           \* last clock tick
TicksPerSecond == 2     \* clock ticks per second of the timestamp
MaxTexts == 2           \* texts of a batch request
MaxLabels == 3          \* rasters per band
MaxW == 2               \* raster width in the band model
MaxH == 2               \* raster height in the band model
MaxLen == 40            \* characters of a request text in the layout model
MaxFontSize == 16       \* font_size of a text request
MaxElements == 2        \* elements of a custom label
CanvasW == 4            \* settings.width in the custom-label model
CanvasH == 3            \* largest settings.height in the custom-label model

(* Program constants *)

MaxRetries == 5         \* max_retries
PRINT_HEAD_PINS == 128  \* brother_pt.cmd.PRINT_HEAD_PINS
DefaultTapeWidth == 9   \* self.tape_width = 9
DefaultPrintHeight == 50 \* self.print_height = 50
SingleMargin == 50      \* self.printer.print_image(image, 50)
BandMargin == 0         \* self.printer.print_image(combined_image, 0)

\* An attribute that has not been assigned (BrotherTechAPI before __init__ ran)
\* or a local that is out of scope.
Unset == -1

\* brother_pt.cmd.MediaWidthToTapeMargin.margin
Margins == (4 :> 52) @@ (6 :> 48) @@ (9 :> 39) @@ (12 :> 29) @@ (18 :> 8) @@ (24 :> 0)

\* Values printer.media_width can take when the status was read: a tape of the
\* margin table, or 0 when no cassette is inserted.
MediaWidths == {0, 12}

----------------------------------------------------------------------------
(* Startup *)

Init ==
    /\ variant \in {"docker", "tech"}
    /\ init_pc = "attempt"
    /\ attempt = 0
    /\ service = FALSE
    /\ has_printer = FALSE
    /\ is_ready = FALSE
    /\ tape_width = IF variant = "docker" THEN DefaultTapeWidth ELSE Unset
    /\ print_height = IF variant = "docker" THEN DefaultPrintHeight ELSE Unset
    /\ clock = 0
    /\ jobs = <<>>
    /\ backups = <<>>
    /\ sends = <<>>
    /\ BandIdle
    /\ LabelIdle
    /\ CustomIdle

\* PRINT_HEAD_PINS - MediaWidthToTapeMargin.margin[self.tape_width] * 2
PrintHeightFor(w) == PRINT_HEAD_PINS - Margins[w] * 2

\* Variant: the loop runs one iteration more before it gives up.
AttemptFailedRetriesOnceMore ==
    /\ init_pc' = IF attempt < MaxRetries THEN "sleep" ELSE "done"
    /\ attempt' = IF attempt < MaxRetries THEN attempt ELSE Unset
    /\ service' = ~(attempt < MaxRetries)

\* BrotherDockerAPI.__init__, the except branch of one loop iteration: sleep
\* unless this was the last attempt; after the last attempt the loop is
\* exhausted, the constructor returns and startup_event binds printer_service.
AttemptFailed ==
    /\ init_pc' = IF attempt < MaxRetries - 1 THEN "sleep" ELSE "done"
    /\ attempt' = IF attempt < MaxRetries - 1 THEN attempt ELSE Unset
    /\ service' = ~(attempt < MaxRetries - 1)

\* One loop iteration in which BrotherPt() raises: nothing is assigned.
AttemptConnectFails ==
    /\ variant = "docker" /\ init_pc = "attempt"
    /\ AttemptFailed
    /\ UNCHANGED <<variant, has_printer, is_ready, tape_width, print_height>>
    /\ UNCHANGED <<clock, jobs, backups, sends, renderVars>>

\* One loop iteration in which the printer answers with a media width that has
\* no entry in the margin table: tape_width is assigned, the lookup raises.
AttemptUnknownWidth(w) ==
    /\ variant = "docker" /\ init_pc = "attempt"
    /\ w \notin DOMAIN Margins
    /\ has_printer' = TRUE
    /\ tape_width' = w
    /\ AttemptFailed
    /\ UNCHANGED <<variant, is_ready, print_height>>
    /\ UNCHANGED <<clock, jobs, backups, sends, renderVars>>

\* time.sleep(2) returns and the for loop moves on to the next attempt.
SleepEnds ==
    /\ variant = "docker" /\ init_pc = "sleep"
    /\ init_pc' = "attempt"
    /\ attempt' = attempt + 1
    /\ UNCHANGED <<variant, printerVars, clock, jobs, backups, sends, renderVars>>

\* One loop iteration that succeeds: the three fields are assigned, the loop
\* breaks, the constructor returns and startup_event binds printer_service.
AttemptSucceeds(w) ==
    /\ variant = "docker" /\ init_pc = "attempt"
    /\ w \in DOMAIN Margins
    /\ has_printer' = TRUE
    /\ tape_width' = w
    /\ print_height' = PrintHeightFor(w)
    /\ is_ready' = TRUE
    /\ attempt' = Unset
    /\ init_pc' = "done"
    /\ service' = TRUE
    /\ UNCHANGED variant
    /\ UNCHANGED <<clock, jobs, backups, sends, renderVars>>

\* BrotherTechAPI.__init__ succeeding, and startup_event binding the object.
TechInitSucceeds(w) ==
    /\ variant = "tech" /\ init_pc = "attempt"
    /\ w \in DOMAIN Margins
    /\ has_printer' = TRUE
    /\ tape_width' = w
    /\ print_height' = PrintHeightFor(w)
    /\ is_ready' = TRUE
    /\ attempt' = Unset
    /\ init_pc' = "done"
    /\ service' = TRUE
    /\ UNCHANGED variant
    /\ UNCHANGED <<clock, jobs, backups, sends, renderVars>>

\* BrotherTechAPI.__init__ failing (BrotherPt() raises, or the width has no
\* margin): is_ready = False, HTTPException raised; startup_event swallows it
\* and printer_service stays None. The fields are those of the discarded object.
TechInitFails(connected, w) ==
    /\ variant = "tech" /\ init_pc = "attempt"
    /\ connected => w \notin DOMAIN Margins
    /\ has_printer' = connected
    /\ tape_width' = IF connected THEN w ELSE tape_width
    /\ is_ready' = FALSE
    /\ attempt' = Unset
    /\ init_pc' = "done"
    /\ UNCHANGED <<variant, service, print_height>>
    /\ UNCHANGED <<clock, jobs, backups, sends, renderVars>>

Startup ==
    \/ AttemptConnectFails
    \/ \E w \in MediaWidths : AttemptUnknownWidth(w)
    \/ SleepEnds
    \/ \E w \in MediaWidths : AttemptSucceeds(w)
    \/ \E w \in MediaWidths : TechInitSucceeds(w)
    \/ \E c \in BOOLEAN, w \in MediaWidths : TechInitFails(c, w)

----------------------------------------------------------------------------
(* Requests *)

SingleKinds == {"cable", "device", "warning", "text"}
PrintKinds == SingleKinds \cup {"batch", "custom"}

\* The routes each module registers.
Routes(v) ==
    IF v = "docker" THEN PrintKinds \cup {"preview", "status"}
    ELSE {"cable", "device", "warning", "status"}

\* Size of the request's list: the texts of a batch; the elements of a custom
\* label, of which only "none" or "some" matters to the handlers.
ListSizes(kind) ==
    IF kind = "batch" THEN 0..MaxTexts
    ELSE IF kind \in {"custom", "preview"} THEN 0..1
    ELSE IF kind = "status" THEN {0} ELSE {1}

NoFile == [dir |-> "", stem |-> "", type |-> "", ts |-> -1]
NoReply == [printer_ready |-> FALSE, tape_width_mm |-> Unset, print_height_px |-> Unset]

NewJob(kind, n) ==
    [kind |-> kind, n |-> n, pc |-> "pending", rendered |-> 0, status |-> 0,
     raised |-> 0, cause |-> "none", file |-> NoFile, filename |-> NoFile,
     reply |-> NoReply]

\* A request reaches the server; its handler coroutine is scheduled.
RequestArrives(kind, n) ==
    /\ init_pc = "done"
    /\ Len(jobs) < MaxJobs
    /\ kind \in Routes(variant)
    /\ n \in ListSizes(kind)
    /\ jobs' = Append(jobs, NewJob(kind, n))
    /\ UNCHANGED <<initVars, printerVars, clock, backups, sends, renderVars>>

----------------------------------------------------------------------------
(* Request handlers *)

\* The label_type argument the handler passes to the print method.
LabelType(kind) == IF kind = "batch" THEN "batch_text" ELSE kind

\* datetime.now().strftime("%m%d_%H%M%S"): the clock truncated to whole seconds.
Timestamp(t) == t \div TicksPerSecond

\* filename = f"/app/labels/tech_{label_type}_{timestamp}.png" (print_label_image),
\* f"/app/labels/batch_{label_type}_combined_{timestamp}.png" (print_batch_labels),
\* f"tech_{label_type}_{timestamp}.png" (BrotherTechAPI.print_label_image).
BackupName(kind, t) ==
    [dir |-> IF variant = "docker" THEN "/app/labels" ELSE "",
     stem |-> IF kind = "batch" THEN "batch_combined" ELSE "tech",
     type |-> LabelType(kind),
     ts |-> Timestamp(t)]

\* os.path.basename(filename)
Basename(f) == [f EXCEPT !.dir = ""]

\* Variant: the band is sent with the margin of a single label.
MarginOfSingleLabel(kind) == SingleMargin

\* The margin argument of printer.print_image.
Margin(kind) == IF kind = "batch" THEN BandMargin ELSE SingleMargin

\* The raster a job prints: the label of a single-label job, or the one band
\* combine_images_to_continuous_band makes of the n labels of a batch job.
JobRaster(j) == [job |-> j, labels |-> IF jobs[j].kind = "batch" THEN jobs[j].n ELSE 1]

\* Variant: the print methods do not look at is_ready.
NotReadyUnchecked == FALSE

\* "if not self.is_ready" at the head of print_label_image / print_batch_labels.
NotReady == ~is_ready

\* print_custom_label wraps create and print in "except Exception", which also
\* catches the HTTPException of the print method and re-raises it as a 500.
Surfaced(kind, code) == IF kind = "custom" THEN 500 ELSE code

\* Variant: the handlers run on worker threads (plain "def" handlers), so one
\* starts whatever the others are doing.
EventLoopNeverBusy == TRUE

\* The handlers are "async def" coroutines without any await: the event loop
\* starts the next one only when none is running.
EventLoopFree == \A j \in 1..Len(jobs) : jobs[j].pc \in {"pending", "done"}

Done(job, status, raised, cause) ==
    [job EXCEPT !.pc = "done", !.status = status, !.raised = raised, !.cause = cause]

\* Entry of print_label_image / print_batch_labels with the rendered raster(s).
EnterPrint(job) ==
    IF NotReady
    THEN Done(job, Surfaced(job.kind, 503), 503, "not_ready")
    ELSE [job EXCEPT !.pc = "save"]

\* Variant: only the custom-label handler rejects an empty list.
EmptyRequestCustomOnly(job) == job.kind = "custom" /\ job.n = 0

\* "if not request.texts" (print_batch_text_labels), "if not request.elements"
\* (print_custom_label): the 400 raised before anything is rendered.
EmptyRequest(job) == job.kind \in {"batch", "custom"} /\ job.n = 0

\* Variant: the preview handler hands its raster to print_label_image.
HandlerEntryPreviewPrints(job, renderOK) ==
    IF ~service THEN Done(job, 503, 0, "no_service")
    ELSE IF job.kind = "status"
    THEN [Done(job, 200, 0, "none") EXCEPT !.reply =
            [printer_ready |-> is_ready, tape_width_mm |-> tape_width,
             print_height_px |-> print_height]]
    ELSE IF EmptyRequest(job)
    THEN Done(job, 400, 0, "empty")
    ELSE IF job.kind \in {"custom", "preview"} /\ ~renderOK
    THEN Done(job, 500, 0, "render")
    ELSE EnterPrint([job EXCEPT !.rendered = IF job.kind = "batch" THEN job.n ELSE 1])

\* The handler from its first line up to the point where the print method has
\* passed its readiness check (or the handler has returned or raised).
HandlerEntry(job, renderOK) ==
    IF ~service THEN Done(job, 503, 0, "no_service")
    ELSE IF job.kind = "status"
    THEN [Done(job, 200, 0, "none") EXCEPT !.reply =
            [printer_ready |-> is_ready, tape_width_mm |-> tape_width,
             print_height_px |-> print_height]]
    ELSE IF job.kind = "preview"
    THEN IF renderOK THEN Done([job EXCEPT !.rendered = 1], 200, 0, "none")
         ELSE Done(job, 500, 0, "render")
    ELSE IF EmptyRequest(job)
    THEN Done(job, 400, 0, "empty")
    ELSE IF job.kind = "custom" /\ ~renderOK
    THEN Done(job, 500, 0, "render")
    ELSE EnterPrint([job EXCEPT !.rendered = IF job.kind = "batch" THEN job.n ELSE 1])

\* The event loop runs the handler of request j up to the backup.
HandlerRuns(j, renderOK) ==
    /\ j \in 1..Len(jobs)
    /\ jobs[j].pc = "pending"
    /\ EventLoopFree
    /\ renderOK \/ jobs[j].kind \in {"custom", "preview"}
    /\ jobs' = [jobs EXCEPT ![j] = HandlerEntry(jobs[j], renderOK)]
    /\ UNCHANGED <<initVars, printerVars, clock, backups, sends, renderVars>>

\* datetime.now() returns t, no earlier than the time read before, and
\* image.save(filename, 'PNG') succeeds: the file is created or overwritten.
\* In print_batch_labels the band is combined first, inside the same try: an
\* empty list raises there and nothing is saved.
SaveBackupSucceeds(j, t) ==
    /\ j \in 1..Len(jobs)
    /\ jobs[j].pc = "save"
    /\ jobs[j].kind = "batch" => jobs[j].n > 0
    /\ t \in clock..MaxClock
    /\ clock' = t
    /\ LET name == BackupName(jobs[j].kind, t) IN
        /\ backups' = (name :> JobRaster(j)) @@ backups
        /\ jobs' = [jobs EXCEPT ![j].pc = "send", ![j].file = name]
    /\ UNCHANGED <<initVars, printerVars, sends, renderVars>>

\* os.makedirs or image.save raises: the print method raises its 500.
SaveBackupFails(j) ==
    /\ j \in 1..Len(jobs)
    /\ jobs[j].pc = "save"
    /\ jobs' = [jobs EXCEPT ![j] = Done(@, Surfaced(@.kind, 500), 500, "save")]
    /\ UNCHANGED <<initVars, printerVars, clock, backups, sends, renderVars>>

\* self.printer.print_image(image, margin) returns: PrintResponse(success=True).
PrintImageSucceeds(j) ==
    /\ j \in 1..Len(jobs)
    /\ jobs[j].pc = "send"
    /\ has_printer
    /\ sends' = Append(sends, [job |-> j, raster |-> JobRaster(j),
                               margin |-> Margin(jobs[j].kind), ok |-> TRUE])
    /\ jobs' = [jobs EXCEPT ![j] =
                  [Done(@, 200, 0, "none") EXCEPT !.filename =
                      IF variant = "docker" THEN Basename(jobs[j].file) ELSE jobs[j].file]]
    /\ UNCHANGED <<initVars, printerVars, clock, backups, renderVars>>

\* Variant: a failed send removes the backup it had written.
PrintImageFailsRollsBack(j) ==
    /\ j \in 1..Len(jobs)
    /\ jobs[j].pc = "send"
    /\ sends' = Append(sends, [job |-> j, raster |-> JobRaster(j),
                               margin |-> Margin(jobs[j].kind), ok |-> FALSE])
    /\ backups' = [f \in DOMAIN backups \ {jobs[j].file} |-> backups[f]]
    /\ jobs' = [jobs EXCEPT ![j] = Done(@, Surfaced(@.kind, 500), 500, "send")]
    /\ UNCHANGED <<initVars, printerVars, clock, renderVars>>

\* Variant: a failed send marks the printer as not ready.
PrintImageFailsClearsReady(j) ==
    /\ j \in 1..Len(jobs)
    /\ jobs[j].pc = "send"
    /\ sends' = Append(sends, [job |-> j, raster |-> JobRaster(j),
                               margin |-> Margin(jobs[j].kind), ok |-> FALSE])
    /\ is_ready' = FALSE
    /\ jobs' = [jobs EXCEPT ![j] = Done(@, Surfaced(@.kind, 500), 500, "send")]
    /\ UNCHANGED <<initVars, service, has_printer, tape_width, print_height>>
    /\ UNCHANGED <<clock, backups, renderVars>>

\* self.printer.print_image(image, margin) raises: the print method raises its 500.
PrintImageFails(j) ==
    /\ j \in 1..Len(jobs)
    /\ jobs[j].pc = "send"
    /\ sends' = Append(sends, [job |-> j, raster |-> JobRaster(j),
                               margin |-> Margin(jobs[j].kind), ok |-> FALSE])
    /\ jobs' = [jobs EXCEPT ![j] = Done(@, Surfaced(@.kind, 500), 500, "send")]
    /\ UNCHANGED <<initVars, printerVars, clock, backups, renderVars>>

Handlers ==
    \/ \E j \in 1..MaxJobs, r \in BOOLEAN : HandlerRuns(j, r)
    \/ \E j \in 1..MaxJobs, t \in 0..MaxClock : SaveBackupSucceeds(j, t)
    \/ \E j \in 1..MaxJobs : SaveBackupFails(j)
    \/ \E j \in 1..MaxJobs : PrintImageSucceeds(j)
    \/ \E j \in 1..MaxJobs : PrintImageFails(j)

----------------------------------------------------------------------------
(* Band composition: combine_images_to_continuous_band *)

\* A raster (PIL image of mode '1'): w columns, h rows, px[<<x, y>>] in {0, 1}.
Pixels(w, h) == (0..(w - 1)) \X (0..(h - 1))

\* Image.new('1', (w, h), fill)
NewImage(w, h, fill) ==
    [err |-> "none", w |-> w, h |-> h, px |-> [p \in Pixels(w, h) |-> fill]]

\* What combine_images_to_continuous_band raises instead of returning a raster.
Raises(e) == [err |-> e, w |-> 0, h |-> 0, px |-> <<>>]

\* combined.paste(img, (x0, 0)): the part of img that falls on the canvas
\* replaces the canvas pixels there.
Paste(canvas, img, x0) ==
    [canvas EXCEPT !.px =
        [p \in Pixels(canvas.w, canvas.h) |->
            IF p[1] - x0 \in 0..(img.w - 1) /\ p[2] \in 0..(img.h - 1)
            THEN img.px[<<p[1] - x0, p[2]>>]
            ELSE canvas.px[p]]]

\* for x in range(2): for y in range(max_height): combined.putpixel((x0 + x, y), 1)
\* putpixel raises IndexError for a position outside the canvas.
SeparatorFits(canvas, x0, max_height) ==
    \A x \in 0..1, y \in 0..(max_height - 1) : <<x0 + x, y>> \in Pixels(canvas.w, canvas.h)

\* Variant: the strip is painted in the background value.
PaintSeparatorBackground(canvas, x0, max_height) ==
    [canvas EXCEPT !.px =
        [p \in Pixels(canvas.w, canvas.h) |->
            IF p[1] - x0 \in 0..1 /\ p[2] \in 0..(max_height - 1) THEN 0 ELSE canvas.px[p]]]

PaintSeparator(canvas, x0, max_height) ==
    [canvas EXCEPT !.px =
        [p \in Pixels(canvas.w, canvas.h) |->
            IF p[1] - x0 \in 0..1 /\ p[2] \in 0..(max_height - 1) THEN 1 ELSE canvas.px[p]]]

RECURSIVE SumWidths(_)
\* sum(img.width for img in images)
SumWidths(imgs) == IF imgs = <<>> THEN 0 ELSE Head(imgs).w + SumWidths(Tail(imgs))

RECURSIVE MaxHeightOf(_)
\* max(img.height for img in images), images not empty
MaxHeightOf(imgs) ==
    IF Len(imgs) = 1 THEN Head(imgs).h
    ELSE LET m == MaxHeightOf(Tail(imgs)) IN IF Head(imgs).h > m THEN Head(imgs).h ELSE m

\* Variant: one separator per raster instead of one per gap.
TotalWidthSeparatorPerRaster(imgs) == SumWidths(imgs) + (2 * Len(imgs))

\* total_width = sum(img.width for img in images) + (2 * (len(images) - 1))
TotalWidth(imgs) == SumWidths(imgs) + (2 * (Len(imgs) - 1))

\* The loop test "i < len(images) - 1" for the 1-based position i.
SeparatorAfter(imgs, i) == i - 1 < Len(imgs) - 1

RECURSIVE CombineLoop(_, _, _, _, _)
\* "for i, img in enumerate(images)" from the 1-based position i on, with the
\* canvas and x_offset the earlier iterations left.
CombineLoop(imgs, i, combined, x_offset, max_height) ==
    IF i > Len(imgs) THEN combined
    ELSE LET img == imgs[i]
             pasted == Paste(combined, img, x_offset)
             x1 == x_offset + img.w
         IN IF SeparatorAfter(imgs, i)
            THEN IF SeparatorFits(pasted, x1, max_height)
                 THEN CombineLoop(imgs, i + 1, PaintSeparator(pasted, x1, max_height),
                                  x1 + 2, max_height)
                 ELSE Raises("IndexError")
            ELSE CombineLoop(imgs, i + 1, pasted, x1, max_height)

\* Variant: the canvas leaves separator_margin columns for every gap.
CombineWithSeparatorMargin(imgs, separator_margin) ==
    IF imgs = <<>> THEN Raises("ValueError")
    ELSE LET max_height == MaxHeightOf(imgs)
             total_width == SumWidths(imgs) + (separator_margin * (Len(imgs) - 1))
         IN CombineLoop(imgs, 1, NewImage(total_width, max_height, 0), 0, max_height)

\* combine_images_to_continuous_band(images, separator_margin); the body never
\* reads separator_margin.
CombineImagesToContinuousBand(imgs, separator_margin) ==
    IF imgs = <<>> THEN Raises("ValueError")
    ELSE LET max_height == MaxHeightOf(imgs)
             total_width == TotalWidth(imgs)
         IN CombineLoop(imgs, 1, NewImage(total_width, max_height, 0), 0, max_height)

\* BatchTextLabelRequest.separator_margin: the default and the value of the
\* documented example.
SeparatorMargins == {4, 50}

\* The label rasters of the band model: the narrowest and the widest raster
\* (1 and MaxW columns) of two heights, filled or chequered (glyph pixels 1 on
\* background 0).
MinH == MaxH - 1
Patterns == {"solid", "chequers"}
LabelRaster(w, h, pat) ==
    [err |-> "none", w |-> w, h |-> h,
     px |-> [p \in Pixels(w, h) |-> IF pat = "solid" THEN 1 ELSE (p[1] + p[2]) % 2]]
LabelRasters == {LabelRaster(w, h, pat) : w \in {1, MaxW}, h \in MinH..MaxH, pat \in Patterns}
RasterLists == UNION {[1..n -> LabelRasters] : n \in 0..MaxLabels}

\* The service is up (ready, or not ready after five failed attempts) and one
\* batch request whose texts render to the rasters `images` is waiting.
InitBand ==
    /\ images \in RasterLists
    /\ band = NotCombined
    /\ variant = "docker"
    /\ init_pc = "done"
    /\ service = TRUE
    /\ is_ready \in BOOLEAN
    /\ has_printer = is_ready
    /\ attempt = Unset
    /\ tape_width = DefaultTapeWidth
    /\ print_height = DefaultPrintHeight
    /\ clock = 0
    /\ jobs = <<NewJob("batch", Len(images))>>
    /\ backups = <<>>
    /\ sends = <<>>
    /\ LabelIdle
    /\ CustomIdle

\* print_batch_labels applies combine_images_to_continuous_band to the rasters
\* and the separator_margin of the request.
CombineImages ==
    /\ band = NotCombined
    /\ \E separator_margin \in SeparatorMargins :
          band' = CombineImagesToContinuousBand(images, separator_margin)
    /\ UNCHANGED <<initVars, printerVars, clock, jobs, backups, sends, images, labelVars, customVars>>

NextBand == CombineImages \/ Handlers

SpecBand == InitBand /\ [][NextBand]_vars

----------------------------------------------------------------------------
(* Label layout: create_cable_label, create_device_label,                  *)
(* create_warning_label, create_simple_text_label                          *)

\* max(a, b), min(a, b)
Max(a, b) == IF a >= b THEN a ELSE b
Min(a, b) == IF a <= b THEN a ELSE b

\* A str is a sequence of characters. Request texts are made of the letters of
\* Alphabet; the characters the code adds are named where they are not ASCII.
Alphabet == <<"a", "b", "c", "d", "e", "f", "g">>
UpperAlphabet == <<"A", "B", "C", "D", "E", "F", "G">>
Str(n) == [i \in 1..n |-> Alphabet[((i - 1) % Len(Alphabet)) + 1]]

\* An Optional[str] field that was not given.
None == <<"None">>

\* The truth value of an Optional[str]: None and "" are false.
Truthy(s) == s /= None /\ s /= <<>>

\* s[:k] and s[-k:] for k >= 0
Prefix(s, k) == SubSeq(s, 1, Min(k, Len(s)))
Suffix(s, k) == SubSeq(s, Max(1, Len(s) - k + 1), Len(s))

\* s.upper()
UpperChar(c) ==
    IF \E i \in 1..Len(Alphabet) : Alphabet[i] = c
    THEN UpperAlphabet[CHOOSE i \in 1..Len(Alphabet) : Alphabet[i] = c]
    ELSE c
Upper(s) == [i \in 1..Len(s) |-> UpperChar(s[i])]

\* s.replace(c, '')
Without(s, c) == SelectSeq(s, LAMBDA x : x /= c)

\* The literal "..." the truncations append.
Dots == <<".", ".", ".">>

\* What ImageFont.load_default() measures: a fixed bitmap font.
DefaultFont ==
    [loaded |-> "default",
     h |-> [bold |-> 11, normal |-> 11, small |-> 11],
     adv |-> [bold |-> 6, normal |-> 6, small |-> 6],
     aspect |-> 0]

\* What the fonts of _get_fonts measure: the DejaVu faces at sizes 10, 8 and 6
\* on texts of narrow low glyphs or of wide tall glyphs (h: height of the
\* bounding box, adv: width per character, aspect: width per character of the
\* bold face in percent of its size), or the default font when loading fails.
Metrics ==
    {[loaded |-> "truetype",
      h |-> [bold |-> 8, normal |-> 6, small |-> 5],
      adv |-> [bold |-> 7, normal |-> 5, small |-> 4],
      aspect |-> 55],
     [loaded |-> "truetype",
      h |-> [bold |-> 10, normal |-> 8, small |-> 6],
      adv |-> [bold |-> 9, normal |-> 7, small |-> 6],
      aspect |-> 70],
     DefaultFont}

\* The sizes _get_fonts asks for.
FontSize == [bold |-> 10, normal |-> 8, small |-> 6]

\* draw.textbbox((0, 0), text, font=fonts[font]): bbox[2] - bbox[0] and
\* bbox[3] - bbox[1]; the box of the empty string is empty.
TextWidth(text, font) == Len(text) * font_metrics.adv[font]
TextHeight(text, font) == IF text = <<>> THEN 0 ELSE font_metrics.h[font]

\* x = (label_width - (bbox[2] - bbox[0])) // 2; draw.text((x, y), text, ...)
Line(field, text, font, label_width, y) ==
    [field |-> field, text |-> text, font |-> font, size |-> FontSize[font],
     x |-> (label_width - TextWidth(text, font)) \div 2, y |-> y]

\* A returned image: Image.new('1', (label_width, self.print_height), 0) with
\* the draw.text calls made on it, in order.
LabelImage(label_width, lines) ==
    [err |-> "none", w |-> label_width, h |-> print_height, lines |-> lines]

\* Variant: every line is drawn whatever the room left.
FitsAlways(y, m) == TRUE

\* "y + m < self.print_height"
Fits(y, m) == y + m < print_height

\* Variant: the cable width without its upper clamp.
CableWidthUnclamped(cable_type) == Max(180, Len(cable_type) * 12)

\* label_width = max(180, min(len(request.cable_type) * 12, 350))
CableWidth(cable_type) == Max(180, Min(Len(cable_type) * 12, 350))

\* label_width = max(200, min(len(request.device_name) * 10, 380))
DeviceWidth(device_name) == Max(200, Min(Len(device_name) * 10, 380))

\* label_width = max(160, min(len(request.warning_text) * 12, 320))
WarningWidth(warning_text) == Max(160, Min(Len(warning_text) * 12, 320))

\* Variant: a color code too wide is always cut.
ColorTextAlwaysCut(color_text, label_width) ==
    IF TextWidth(color_text, "small") > label_width - 8
    THEN Prefix(color_text, (label_width - 20) \div 5) \o Dots
    ELSE color_text

\* if bbox[2] - bbox[0] > label_width - 8:
\*     max_chars = (label_width - 20) // 5
\*     color_text = color_text[:max_chars] + "..." if len(color_text) > max_chars else color_text
ColorText(color_text, label_width) ==
    IF TextWidth(color_text, "small") > label_width - 8
    THEN LET max_chars == (label_width - 20) \div 5
         IN IF Len(color_text) > max_chars
            THEN Prefix(color_text, max_chars) \o Dots
            ELSE color_text
    ELSE color_text

CreateCableLabel(request) ==
    LET label_width == CableWidth(request.cable_type)
        y1 == 3 + TextHeight(request.cable_type, "bold") + 2
        voltage_text == <<"<bolt>", " ">> \o request.voltage
        draw2 == Truthy(request.voltage) /\ Fits(y1, 10)
        y2 == IF draw2 THEN y1 + TextHeight(voltage_text, "normal") + 1 ELSE y1
        dest_text == <<"<arrow>", " ">> \o request.destination
        draw3 == Truthy(request.destination) /\ Fits(y2, 8)
        y3 == IF draw3 THEN y2 + TextHeight(dest_text, "small") + 1 ELSE y2
        draw4 == Truthy(request.color_code) /\ Fits(y3, 6)
    IN LabelImage(label_width,
          <<Line("cable_type", request.cable_type, "bold", label_width, 3)>>
          \o (IF draw2 THEN <<Line("voltage", voltage_text, "normal", label_width, y1)>> ELSE <<>>)
          \o (IF draw3 THEN <<Line("destination", dest_text, "small", label_width, y2)>> ELSE <<>>)
          \o (IF draw4 THEN <<Line("color_code", ColorText(request.color_code, label_width),
                                   "small", label_width, y3)>> ELSE <<>>))

\* additional_info = request.model or request.rack_unit
AdditionalInfo(request) ==
    IF Truthy(request.model) THEN request.model ELSE request.rack_unit

\* Variant: the cut keeps 30 characters before the dots.
ShortInfoKeeps30(additional_info) ==
    IF Len(additional_info) > 30 THEN Prefix(additional_info, 30) \o Dots ELSE additional_info

\* if len(additional_info) > 30: additional_info = additional_info[:27] + "..."
ShortInfo(additional_info) ==
    IF Len(additional_info) > 30 THEN Prefix(additional_info, 27) \o Dots ELSE additional_info

\* mac_short = request.mac_address.replace(':', '')[-6:].upper()
MacShort(mac_address) == Upper(Suffix(Without(mac_address, ":"), 6))

CreateDeviceLabel(request) ==
    LET label_width == DeviceWidth(request.device_name)
        y1 == 2 + TextHeight(request.device_name, "bold") + 2
        ip_text == <<"I", "P", ":", " ">> \o request.ip_address
        draw2 == Truthy(request.ip_address) /\ Fits(y1, 9)
        y2 == IF draw2 THEN y1 + TextHeight(ip_text, "normal") + 1 ELSE y1
        mac_text == <<"M", "A", "C", ":", " ">> \o Dots \o MacShort(request.mac_address)
        draw3 == Truthy(request.mac_address) /\ Fits(y2, 7)
        y3 == IF draw3 THEN y2 + TextHeight(mac_text, "small") + 1 ELSE y2
        additional_info == AdditionalInfo(request)
        draw4 == Truthy(additional_info) /\ Fits(y3, 6)
    IN LabelImage(label_width,
          <<Line("device_name", request.device_name, "bold", label_width, 2)>>
          \o (IF draw2 THEN <<Line("ip_address", ip_text, "normal", label_width, y1)>> ELSE <<>>)
          \o (IF draw3 THEN <<Line("mac_address", mac_text, "small", label_width, y2)>> ELSE <<>>)
          \o (IF draw4 THEN <<Line("additional_info", ShortInfo(additional_info),
                                   "small", label_width, y3)>> ELSE <<>>))

CreateWarningLabel(request) ==
    LET label_width == WarningWidth(request.warning_text)
        warning_full == request.icon \o <<" ">> \o Upper(request.warning_text)
                           \o <<" ">> \o request.icon
        y1 == 4 + TextHeight(warning_full, "bold") + 3
        voltage_text == <<">", ">", ">", " ">> \o request.voltage \o <<" ", "<", "<", "<">>
        draw2 == Truthy(request.voltage) /\ Fits(y1, 10)
    IN LabelImage(label_width,
          <<Line("warning_text", warning_full, "bold", label_width, 4)>>
          \o (IF draw2 THEN <<Line("voltage", voltage_text, "normal", label_width, y1)>> ELSE <<>>))

\* ImageFont.truetype(DejaVuSans-Bold.ttf, size) in try/except: the default
\* font when the face is not installed or the size is not positive.
LoadFont(size) ==
    IF font_metrics.loaded = "truetype" /\ size > 0 THEN "truetype" ELSE "default"

\* draw.textbbox((0, 0), text, font=font) for the font loaded at `size`.
SizedWidth(text, size) ==
    IF LoadFont(size) = "truetype"
    THEN (Len(text) * size * font_metrics.aspect) \div 100
    ELSE Len(text) * DefaultFont.adv.bold
SizedHeight(text, size) ==
    IF text = <<>> THEN 0
    ELSE IF LoadFont(size) = "truetype" THEN Max(1, (size * 3) \div 4)
    ELSE DefaultFont.h.bold

\* int(estimated_width) for estimated_width = len(text) * (font_size * 0.6):
\* the float product of a value that is a whole number in exact arithmetic may
\* fall just below it (30 * (14 * 0.6) = 251.99999999999997), so both
\* truncations are outcomes; any other value is at least 0.2 from a whole number.
EstimatedWidths(request) ==
    LET tenths == Len(request.text) * request.font_size * 6
    IN IF tenths % 10 = 0 /\ tenths > 0
       THEN {tenths \div 10, (tenths \div 10) - 1}
       ELSE {tenths \div 10}

\* Variant: the new size has no lower limit.
NewFontSizeUnlimited(font_size, label_width, text_width) ==
    (font_size * (label_width - 20)) \div text_width

\* new_font_size = max(8, int(request.font_size * (label_width - 20) / text_width))
\* for font_size >= 0 and text_width > label_width - 20 > 0
NewFontSize(font_size, label_width, text_width) ==
    Max(8, (font_size * (label_width - 20)) \div text_width)

\* create_simple_text_label, int(estimated_width) being `estimated`.
CreateSimpleTextLabel(request, estimated) ==
    LET label_width == Max(180, Min(estimated + 40, 400))
        text_width == SizedWidth(request.text, request.font_size)
        size == IF text_width > label_width - 20
                THEN NewFontSize(request.font_size, label_width, text_width)
                ELSE request.font_size
    IN LabelImage(label_width,
          <<[field |-> "text", text |-> request.text, font |-> LoadFont(size), size |-> size,
             x |-> (label_width - SizedWidth(request.text, size)) \div 2,
             y |-> (print_height - SizedHeight(request.text, size)) \div 2]>>)

\* The requests of the layout model. Layout requests: every length of the
\* primary text with every combination of optional fields present or not.
\* Long requests: every length of the color code, the model and the rack unit,
\* also the strings a first truncation produced.
Lengths == 0..MaxLen
Optional == {None, Str(3)}
Mac == <<"a", "b", ":", "c", "d", ":", "e", "f", ":", "0", "1", ":", "2", "3", ":", "4", "5">>
Icon == <<"<warning sign>">>
LongStrings == {Str(n) : n \in Lengths} \cup {ShortInfo(Str(n)) : n \in Lengths}

CableRequests(types, voltages, destinations, colors) ==
    {[kind |-> "cable", cable_type |-> t, voltage |-> v, destination |-> d, color_code |-> c] :
        t \in types, v \in voltages, d \in destinations, c \in colors}
DeviceRequests(names, ips, macs, models, racks) ==
    {[kind |-> "device", device_name |-> n, ip_address |-> i, mac_address |-> a,
      model |-> m, rack_unit |-> r] :
        n \in names, i \in ips, a \in macs, m \in models, r \in racks}
WarningRequests(texts, voltages) ==
    {[kind |-> "warning", warning_text |-> t, voltage |-> v, icon |-> Icon] :
        t \in texts, v \in voltages}
TextRequests ==
    {[kind |-> "text", text |-> Str(n), font_size |-> s] : n \in Lengths, s \in 0..MaxFontSize}

LayoutRequests ==
    LET primary == {Str(n) : n \in Lengths}
    IN CableRequests(primary, Optional, Optional, Optional)
       \cup DeviceRequests(primary, Optional, {None, Mac}, Optional, Optional)
       \cup WarningRequests(primary, Optional)
LongRequests ==
    CableRequests({Str(n) : n \in Lengths}, {None}, {None}, {Str(n) : n \in Lengths})
    \cup DeviceRequests({Str(5)}, {None}, {None}, LongStrings \cup {None},
                        {None, Str(MaxLen - 5), Str(MaxLen)})
    \cup TextRequests

\* The service is ready on some tape; a label request is about to be rendered.
InitLabel ==
    /\ \/ label_request \in LayoutRequests /\ tape_width \in DOMAIN Margins
       \/ label_request \in LongRequests /\ tape_width = DefaultTapeWidth
    /\ font_metrics \in Metrics
    /\ label_image = NoLabel
    /\ print_height = PrintHeightFor(tape_width)
    /\ variant = "docker"
    /\ init_pc = "done"
    /\ service = TRUE
    /\ is_ready = TRUE
    /\ has_printer = TRUE
    /\ attempt = Unset
    /\ clock = 0
    /\ jobs = <<>>
    /\ backups = <<>>
    /\ sends = <<>>
    /\ BandIdle
    /\ CustomIdle

LabelCreated(image) ==
    /\ label_image = NoLabel
    /\ label_image' = image
    /\ UNCHANGED <<initVars, printerVars, clock, jobs, backups, sends,
                   label_request, font_metrics, bandVars, customVars>>

CableLabelCreated ==
    /\ label_request.kind = "cable"
    /\ LabelCreated(CreateCableLabel(label_request))
DeviceLabelCreated ==
    /\ label_request.kind = "device"
    /\ LabelCreated(CreateDeviceLabel(label_request))
WarningLabelCreated ==
    /\ label_request.kind = "warning"
    /\ LabelCreated(CreateWarningLabel(label_request))
TextLabelCreated ==
    /\ label_request.kind = "text"
    /\ \E estimated \in EstimatedWidths(label_request) :
          LabelCreated(CreateSimpleTextLabel(label_request, estimated))

NextLabel == CableLabelCreated \/ DeviceLabelCreated \/ WarningLabelCreated \/ TextLabelCreated

SpecLabel == InitLabel /\ [][NextLabel]_vars

----------------------------------------------------------------------------
(* Custom labels: create_custom_label, _render_element                     *)

\* An Optional[int] field is the empty set (None) or the set of its value;
\* "field or default" takes the default for None and for 0.
OrElse(field, default) ==
    IF field = {} \/ field = {0} THEN default ELSE CHOOSE v \in field : TRUE

\* An Optional[str] color that is None or empty.
NoColor == ""

\* The pixels of the box [x0, y0, x1, y1], both corners included, and of its
\* outline, as ImageDraw.rectangle paints them.
Box(x0, y0, x1, y1) == (x0..x1) \X (y0..y1)
Outline(x0, y0, x1, y1) ==
    {p \in Box(x0, y0, x1, y1) : p[1] \in {x0, x1} \/ p[2] \in {y0, y1}}

\* ImageDraw.rectangle raises ValueError for a box whose second corner lies
\* left of or above the first ("x1 must be greater than or equal to x0").
Inverted(x0, y0, x1, y1) == x1 < x0 \/ y1 < y0

\* text = element.text or 'Text'
TextOf(element) == IF Truthy(element.text) THEN element.text ELSE <<"T", "e", "x", "t">>

\* The glyph pixels draw.text((element.x, element.y), text, fill=0, font=font)
\* paints: the bitmap of a character is reduced to a 2 x 2 cell whose diagonal
\* is ink, the characters side by side.
TextInk(element) ==
    {<<element.x + dx, element.y + dy>> :
        <<dx, dy>> \in {q \in (0..(2 * Len(TextOf(element)) - 1)) \X (0..1) :
                           (q[1] + q[2]) % 2 = 0}}

\* The rect branch: width, height and border_width with their defaults, the
\* fill (painted 0 for every fillColor but None, '' and 'transparent') and the
\* border_width outlines, each one pixel further in.
RectWidth(element) == OrElse(element.width, 40)
RectHeight(element) == OrElse(element.height, 20)
Filled(element) == element.fillColor /= NoColor /\ element.fillColor /= "transparent"
RectBox(element, i) ==
    [x0 |-> element.x + i, y0 |-> element.y + i,
     x1 |-> element.x + RectWidth(element) - i, y1 |-> element.y + RectHeight(element) - i]
BorderSteps(element) == 0..(OrElse(element.borderWidth, 1) - 1)
RectRaises(element) ==
    \/ Filled(element) /\ LET b == RectBox(element, 0) IN Inverted(b.x0, b.y0, b.x1, b.y1)
    \/ \E i \in BorderSteps(element) :
          LET b == RectBox(element, i) IN Inverted(b.x0, b.y0, b.x1, b.y1)
RectInk(element) ==
    (IF Filled(element)
     THEN LET b == RectBox(element, 0) IN Box(b.x0, b.y0, b.x1, b.y1) ELSE {})
    \cup UNION {LET b == RectBox(element, i) IN Outline(b.x0, b.y0, b.x1, b.y1) :
                  i \in BorderSteps(element)}

\* The line branch for a horizontal line (y2 None): thickness rows from x to
\* x2 = element.x2 or element.x + 50.
LineInk(element) ==
    LET x2 == OrElse(element.x2, element.x + 50)
        lo == Min(element.x, x2)
        hi == Max(element.x, x2)
    IN UNION {(lo..hi) \X {element.y + i} : i \in 0..(OrElse(element.thickness, 1) - 1)}

\* _render_element: what the branch of element.type raises, if anything. A
\* type without a branch raises nothing.
ElementRaises(element) == element.type = "rect" /\ RectRaises(element)

\* _render_element: the pixels the branch of element.type paints, all with
\* value 0. A type without a branch paints nothing.
ElementInk(element) ==
    CASE element.type = "text" -> TextInk(element)
      [] element.type = "rect" -> RectInk(element)
      [] element.type = "line" -> LineInk(element)
      [] OTHER -> {}

\* The draw calls of one element on the image; what falls outside is clipped.
RenderElement(image, element) ==
    LET ink == ElementInk(element) \cap Pixels(image.w, image.h)
    IN [image EXCEPT !.px = [p \in Pixels(image.w, image.h) |-> IF p \in ink THEN 0 ELSE image.px[p]]]

\* raise ValueError(f"Failed to render element: {str(e)}"): the message holds
\* the text of the library's exception and nothing of the element.
RenderFailure(e) ==
    [err |-> "ValueError", w |-> 0, h |-> 0, px |-> <<>>,
     message |-> <<"Failed to render element: ", e>>]

RECURSIVE RenderLoop(_, _, _)
\* "for element in request.elements" from position i on, inside the try.
RenderLoop(image, elements, i) ==
    IF i > Len(elements) THEN image
    ELSE IF ElementRaises(elements[i])
    THEN RenderFailure("x1 must be greater than or equal to x0")
    ELSE RenderLoop(RenderElement(image, elements[i]), elements, i + 1)

\* create_custom_label: Image.new('1', (width, height), 1), then the elements.
CreateCustomLabel(request) ==
    RenderLoop(NewImage(request.width, request.height, 1), request.elements, 1)

\* The elements of the custom-label model on a canvas of CanvasW x CanvasH or
\* one row less: rects that cover the canvas or its left part, with and without
\* fill, with the default border or one too wide for the rect, or of negative
\* width; a one-letter text; a horizontal line; an element of a type
\* _render_element has no branch for.
ElementIds == <<"e1", "e2", "e3", "e4">>
Element(type, x, y) ==
    [type |-> type, x |-> x, y |-> y, id |-> "", text |-> None, width |-> {}, height |-> {},
     fillColor |-> NoColor, borderWidth |-> {}, x2 |-> {}, y2 |-> {}, thickness |-> {}]
Rects ==
    {[Element("rect", 0, 0) EXCEPT !.width = w, !.fillColor = c, !.borderWidth = b] :
        w \in {{}, {2}, {-1}}, c \in {NoColor, "#ffffff"}, b \in {{}, {3}}}
    \cup {[Element("rect", 0, 0) EXCEPT !.fillColor = "transparent"]}
Texts == {[Element("text", x, 0) EXCEPT !.text = <<"a">>] : x \in 0..1}
Lines == {Element("line", 0, 1)}
Unbranched == {Element("circle", 0, 0)}
Elements == Rects \cup Texts \cup Lines \cup Unbranched
ElementLists ==
    {[i \in 1..Len(l) |-> [l[i] EXCEPT !.id = ElementIds[i]]] :
        l \in UNION {[1..n -> Elements] : n \in 0..MaxElements}}
CustomRequests ==
    {[width |-> CanvasW, height |-> h, elements |-> l] :
        h \in {CanvasH - 1, CanvasH}, l \in ElementLists}

\* The service is up (ready, or not ready after five failed attempts) and one
\* print-custom request is waiting.
InitCustom ==
    /\ custom_request \in CustomRequests
    /\ custom_image = NotCombined
    /\ variant = "docker"
    /\ init_pc = "done"
    /\ service = TRUE
    /\ is_ready \in BOOLEAN
    /\ has_printer = is_ready
    /\ attempt = Unset
    /\ tape_width = DefaultTapeWidth
    /\ print_height = DefaultPrintHeight
    /\ clock = 0
    /\ jobs = <<NewJob("custom", Len(custom_request.elements))>>
    /\ backups = <<>>
    /\ sends = <<>>
    /\ BandIdle
    /\ LabelIdle

\* create_custom_label is applied to the request.
CustomLabelCreated ==
    /\ custom_image = NotCombined
    /\ custom_image' = CreateCustomLabel(custom_request)
    /\ UNCHANGED <<initVars, printerVars, clock, jobs, backups, sends,
                   custom_request, bandVars, labelVars>>

\* The handler of the print-custom request runs; its create_custom_label call
\* returns or raises as the elements of the request make it.
CustomHandlerRuns ==
    HandlerRuns(1, CreateCustomLabel(custom_request).err = "none")

NextCustom ==
    \/ CustomLabelCreated
    \/ CustomHandlerRuns
    \/ \E t \in 0..MaxClock : SaveBackupSucceeds(1, t)
    \/ SaveBackupFails(1)
    \/ PrintImageSucceeds(1)
    \/ PrintImageFails(1)

SpecCustom == InitCustom /\ [][NextCustom]_vars

----------------------------------------------------------------------------
Next ==
    \/ Startup
    \/ \E k \in PrintKinds \cup {"preview", "status"}, n \in 0..MaxTexts : RequestArrives(k, n)
    \/ Handlers

Spec == Init /\ [][Next]_vars

\* The service with a startup that makes progress: BrotherPt() returns or
\* raises and time.sleep(2) returns, so a pending startup step is taken.
SpecStartup == Init /\ [][Next]_vars /\ WF_vars(Startup)

----------------------------------------------------------------------------
(* Properties *)

JobIds == 1..Len(jobs)
SendsOf(j) == {i \in 1..Len(sends) : sends[i].job = j}
Started == init_pc = "done"

\* C1: while the printer state is not ready, every print job that reaches
\* print_label_image or print_batch_labels ends there with the 503 "not ready"
\* error, no backup has been written and print_image has never been called.
C1_NotReadyNoSideEffect ==
    (Started /\ ~is_ready) =>
        /\ sends = <<>>
        /\ DOMAIN backups = {}
        /\ \A j \in JobIds :
              (jobs[j].kind \in PrintKinds /\ jobs[j].rendered > 0) =>
                 /\ jobs[j].pc = "done"
                 /\ jobs[j].raised = 503
                 /\ jobs[j].cause = "not_ready"
                 /\ jobs[j].file = NoFile

C1_Witness ==
    /\ Started /\ service /\ ~is_ready
    /\ \E j, k \in JobIds :
          /\ jobs[j].kind = "batch" /\ jobs[j].raised = 503
          /\ jobs[k].kind \in SingleKinds \cup {"custom"} /\ jobs[k].raised = 503

\* C2: a send is only invoked for a job whose backup is on disk; after a failed
\* send the backup file is still there and the job's result is a failure; a
\* success result exists only for a job whose backup was written and whose send
\* succeeded, and it carries the name of the backup file.
C2_BackupBeforeSendNoRollback ==
    /\ \A i \in 1..Len(sends) :
          /\ jobs[sends[i].job].file /= NoFile
          /\ jobs[sends[i].job].file \in DOMAIN backups
          /\ ~sends[i].ok => jobs[sends[i].job].status = 500
    /\ \A j \in JobIds :
          /\ jobs[j].pc = "send" => jobs[j].file \in DOMAIN backups
          /\ (jobs[j].kind \in PrintKinds /\ jobs[j].status = 200) =>
                /\ jobs[j].file \in DOMAIN backups
                /\ \E i \in SendsOf(j) : sends[i].ok
                /\ jobs[j].filename = Basename(jobs[j].file)
          /\ (jobs[j].kind \in PrintKinds /\ jobs[j].status /= 200) =>
                jobs[j].filename = NoFile

C2_Witness ==
    \E j, k \in JobIds :
        /\ jobs[j].cause = "send" /\ jobs[j].status = 500
        /\ jobs[j].file \in DOMAIN backups
        /\ jobs[k].kind \in PrintKinds /\ jobs[k].status = 200

\* C3 (as claimed): every raster that was sent to the printer is held by some
\* stored backup, whatever jobs were printed afterwards.
C3_EveryJobKeepsItsBackup ==
    \A i \in 1..Len(sends) : \E f \in DOMAIN backups : backups[f] = sends[i].raster

InFlight(j) == jobs[j].pc \in {"save", "send"}

\* C5: at no time are two print jobs between the start of their backup and the
\* return of their send.
C5_OneJobInFlight == Cardinality({j \in JobIds : InFlight(j)}) <= 1

\* A second print request has arrived while the send of the first is running.
C5_Witness ==
    \E j, k \in JobIds :
        /\ jobs[j].pc = "send"
        /\ jobs[k].pc = "pending" /\ jobs[k].kind \in PrintKinds

\* C6 (as claimed): whenever print_height is assigned, tape_width has a margin
\* and print_height = PRINT_HEAD_PINS - 2 * margin[tape_width].
C6_PrintHeightMatchesTape ==
    print_height /= Unset =>
        /\ tape_width \in DOMAIN Margins
        /\ print_height = PRINT_HEAD_PINS - 2 * Margins[tape_width]

\* C7: once startup has completed, no step changes is_ready, tape_width or
\* print_height.
C7_PrinterStateFrozen ==
    [][Started => UNCHANGED <<is_ready, tape_width, print_height>>]_vars

\* After startup a status request was answered and a print job failed at the send.
C7_Witness ==
    /\ Started
    /\ \E j, k \in JobIds :
          /\ jobs[j].kind = "status" /\ jobs[j].status = 200
          /\ jobs[k].cause = "send"

RECURSIVE WidthOfFirst(_)
\* The summed width of the first k input rasters.
WidthOfFirst(k) == IF k = 0 THEN 0 ELSE WidthOfFirst(k - 1) + images[k].w

\* The x-offset the claims give raster i (1-based): the widths before it plus
\* two columns per raster before it.
OffsetOf(i) == WidthOfFirst(i - 1) + 2 * (i - 1)

Combined == band /= NotCombined

\* C8: for a non-empty list of n rasters the band has width
\* sum of the widths + 2 * (n - 1) and the height of the tallest raster; for
\* n = 1 the width is that of the single raster.
C8_BandSize ==
    (Combined /\ images /= <<>>) =>
        /\ band.err = "none"
        /\ band.w = WidthOfFirst(Len(images)) + 2 * (Len(images) - 1)
        /\ \A i \in 1..Len(images) : images[i].h <= band.h
        /\ \E i \in 1..Len(images) : images[i].h = band.h
        /\ Len(images) = 1 => band.w = images[1].w
        /\ DOMAIN band.px = Pixels(band.w, band.h)

C8_Witness ==
    /\ Combined /\ band.err = "none"
    /\ Len(images) = 3
    /\ \E i, k \in 1..3 : images[i].h < images[k].h

\* C9: combining the empty list raises the empty-input error and yields no
\* raster; a batch request without texts is answered 400 with nothing rendered,
\* no backup written and nothing sent.
C9_EmptyRejected ==
    /\ (Combined /\ images = <<>>) => band = Raises("ValueError")
    /\ \A j \in JobIds :
          (jobs[j].kind = "batch" /\ jobs[j].n = 0 /\ jobs[j].pc /= "pending") =>
             /\ jobs[j].pc = "done"
             /\ jobs[j].status = 400
             /\ jobs[j].rendered = 0
             /\ jobs[j].file = NoFile
             /\ SendsOf(j) = {}
             /\ DOMAIN backups = {}

C9_Witness ==
    /\ images = <<>>
    /\ band.err = "ValueError"
    /\ jobs[1].n = 0 /\ jobs[1].status = 400

\* C10: in the band, raster i keeps its pixels at x-offset OffsetOf(i), the
\* rows below a shorter raster stay background 0, the two columns after every
\* raster but the last are 1 over the full height, and the band ends with the
\* last raster.
C10_BandLayout ==
    (Combined /\ images /= <<>>) =>
        /\ band.err = "none"
        /\ \A i \in 1..Len(images) :
              LET img == images[i]
                  off == OffsetOf(i)
              IN /\ \A p \in Pixels(img.w, band.h) :
                       band.px[<<off + p[1], p[2]>>] = IF p[2] < img.h THEN img.px[p] ELSE 0
                 /\ i < Len(images) =>
                       \A x \in 0..1, y \in 0..(band.h - 1) : band.px[<<off + img.w + x, y>>] = 1
                 /\ i = Len(images) => off + img.w = band.w

C10_Witness ==
    /\ Combined /\ band.err = "none"
    /\ Len(images) = 3
    /\ images[1].h < images[2].h
    /\ \E p \in DOMAIN images[3].px : images[3].px[p] = 0

\* C17 (as claimed): a print request of any of the six kinds handled while the
\* service object is missing or the printer is not ready is answered 503.
C17_NotReadyAnswers503 ==
    \A j \in JobIds :
        (jobs[j].kind \in PrintKinds /\ jobs[j].pc /= "pending" /\ (~service \/ ~is_ready)) =>
            /\ jobs[j].pc = "done"
            /\ jobs[j].status = 503

LabelRendered == label_image /= NoLabel

\* What the claims say the width of a label of `kind` is for a primary text of
\* n characters.
ClaimedWidth(kind, n) ==
    LET clamp(lo, v, hi) == IF v < lo THEN lo ELSE IF v > hi THEN hi ELSE v
    IN CASE kind = "cable" -> clamp(180, 12 * n, 350)
         [] kind = "device" -> clamp(200, 10 * n, 380)
         [] kind = "warning" -> clamp(160, 12 * n, 320)

PrimaryText(req) ==
    CASE req.kind = "cable" -> req.cable_type
      [] req.kind = "device" -> req.device_name
      [] req.kind = "warning" -> req.warning_text
      [] req.kind = "text" -> req.text

\* C12: a cable raster has height print_height and width
\* max(180, min(12 * len(cable_type), 350)), within [180, 350]; a device raster
\* width max(200, min(10 * len(device_name), 380)); a warning raster width
\* max(160, min(12 * len(warning_text), 320)); for every length from 0 on.
C12_LabelWidths ==
    (LabelRendered /\ label_request.kind \in {"cable", "device", "warning"}) =>
        /\ label_image.err = "none"
        /\ label_image.h = print_height
        /\ label_image.w = ClaimedWidth(label_request.kind, Len(PrimaryText(label_request)))
        /\ label_request.kind = "cable" => label_image.w \in 180..350

\* Cable labels were rendered at the lower clamp (empty text), between the
\* clamps and at the upper clamp.
C12_Witness ==
    /\ LabelRendered /\ label_request.kind = "cable"
    /\ label_request.cable_type = Str(MaxLen)
    /\ label_image.w = 350

\* The lines drawn for `field` on the rendered label (none or one).
DrawnFor(field) ==
    {i \in 1..Len(label_image.lines) : label_image.lines[i].field = field}

\* The rule of the claim: unchanged up to 30 characters, else the first 27
\* characters and three dots.
ClaimedInfo(s) ==
    IF Len(s) <= 30 THEN s ELSE SubSeq(s, 1, 27) \o <<".", ".", ".">>

\* C13: the additional info drawn on a device label (the model, or the rack
\* unit when there is no model) is the string itself when it has at most 30
\* characters and its first 27 characters followed by "..." otherwise; what is
\* drawn has at most 30 characters and the rule leaves it unchanged.
C13_InfoTruncation ==
    (LabelRendered /\ label_request.kind = "device") =>
        \A i \in DrawnFor("additional_info") :
            LET info == IF label_request.model \notin {None, <<>>}
                        THEN label_request.model ELSE label_request.rack_unit
                drawn == label_image.lines[i].text
            IN /\ drawn = ClaimedInfo(info)
               /\ Len(drawn) <= 30
               /\ ClaimedInfo(drawn) = drawn

\* A model of MaxLen characters was drawn as 27 characters and the dots.
C13_Witness ==
    /\ LabelRendered /\ label_request.kind = "device"
    /\ Len(label_request.model) = MaxLen
    /\ \E i \in DrawnFor("additional_info") :
          /\ Len(label_image.lines[i].text) = 30
          /\ SubSeq(label_image.lines[i].text, 28, 30) = <<".", ".", ".">>

\* The text of a text request measured at the requested size is wider than
\* label_width - 20.
TooWide ==
    SizedWidth(label_request.text, label_request.font_size) > label_image.w - 20

\* C14 (as claimed): when the text at the requested font size is wider than
\* label_width - 20, the size drawn with is strictly smaller than the requested
\* size and at least 8.
C14_ShrinkStrict ==
    (LabelRendered /\ label_request.kind = "text" /\ TooWide) =>
        /\ label_image.lines[1].size < label_request.font_size
        /\ label_image.lines[1].size >= 8

\* C14 (amended): in that case the size drawn with is at least 8; it is
\* strictly smaller than a requested size above 8, and it is 8 (not smaller
\* than requested) for a requested size of 8 or less.
C14_ShrinkAbove8 ==
    (LabelRendered /\ label_request.kind = "text" /\ TooWide) =>
        /\ label_image.lines[1].size >= 8
        /\ label_request.font_size > 8 => label_image.lines[1].size < label_request.font_size
        /\ label_request.font_size <= 8 => label_image.lines[1].size = 8

\* A text too wide at size 14 was drawn at a smaller size above the limit.
C14_Witness ==
    /\ LabelRendered /\ label_request.kind = "text" /\ TooWide
    /\ label_request.font_size = 14
    /\ label_image.lines[1].size \in 9..13

\* The lines of each layout as the claim lists them, in drawing order: the
\* field, its minimum height m (the first line is unconditional), and the
\* distance added below its glyphs.
ClaimedLayout(kind) ==
    CASE kind = "cable" ->
           [start |-> 3,
            rows |-> <<[field |-> "cable_type", m |-> 0, gap |-> 2],
                       [field |-> "voltage", m |-> 10, gap |-> 1],
                       [field |-> "destination", m |-> 8, gap |-> 1],
                       [field |-> "color_code", m |-> 6, gap |-> 0]>>]
      [] kind = "device" ->
           [start |-> 2,
            rows |-> <<[field |-> "device_name", m |-> 0, gap |-> 2],
                       [field |-> "ip_address", m |-> 9, gap |-> 1],
                       [field |-> "mac_address", m |-> 7, gap |-> 1],
                       [field |-> "additional_info", m |-> 6, gap |-> 0]>>]
      [] kind = "warning" ->
           [start |-> 4,
            rows |-> <<[field |-> "warning_text", m |-> 0, gap |-> 3],
                       [field |-> "voltage", m |-> 10, gap |-> 0]>>]

\* The request gives the optional field a non-empty value.
Present(field) ==
    IF field = "additional_info"
    THEN label_request.model \notin {None, <<>>} \/ label_request.rack_unit \notin {None, <<>>}
    ELSE label_request[field] \notin {None, <<>>}

RECURSIVE CursorBefore(_, _)
\* The vertical cursor when row k of the layout is reached: the start, moved
\* below every earlier row that was drawn and not at all by the rows omitted.
CursorBefore(layout, k) ==
    IF k = 1 THEN layout.start
    ELSE LET row == layout.rows[k - 1]
             y == CursorBefore(layout, k - 1)
         IN IF DrawnFor(row.field) = {} THEN y
            ELSE LET line == label_image.lines[CHOOSE i \in DrawnFor(row.field) : TRUE]
                 IN y + TextHeight(line.text, line.font) + row.gap

\* C18: in a cable, device or warning label an optional line is drawn exactly
\* when its field is present and cursor + m < print_height at that point, at
\* the cursor; an omitted line does not move the cursor; every line drawn lies
\* at a y not exceeding print_height.
C18_LinesFit ==
    (LabelRendered /\ label_request.kind \in {"cable", "device", "warning"}) =>
        LET layout == ClaimedLayout(label_request.kind)
        IN /\ \A i \in 1..Len(label_image.lines) : label_image.lines[i].y <= print_height
           /\ \A k \in 1..Len(layout.rows) :
                 LET row == layout.rows[k]
                     y == CursorBefore(layout, k)
                 IN /\ Cardinality(DrawnFor(row.field)) <= 1
                    /\ \A i \in DrawnFor(row.field) : label_image.lines[i].y = y
                    /\ k = 1 => DrawnFor(row.field) /= {}
                    /\ k > 1 => (DrawnFor(row.field) /= {}
                                   <=> (Present(row.field) /\ y + row.m < print_height))

\* On the lowest tape a cable label omitted its voltage and destination for
\* lack of room and drew the color code where the voltage would have been.
C18_Witness ==
    /\ LabelRendered /\ label_request.kind = "cable"
    /\ Present("voltage") /\ Present("destination")
    /\ DrawnFor("voltage") = {} /\ DrawnFor("destination") = {}
    /\ \E i \in DrawnFor("color_code") :
          label_image.lines[i].y = 3 + TextHeight(label_request.cable_type, "bold") + 2

\* The color code of the cable request measures more than label_width - 8.
ColorTooWide ==
    TextWidth(label_request.color_code, "small") > label_image.w - 8

\* (label_width - 20) / 5, integer division
ColorMaxChars == (label_image.w - 20) \div 5

\* The first ColorMaxChars characters of the color code (all of it when it is
\* shorter) followed by "...".
ColorCut ==
    LET c == label_request.color_code
    IN SubSeq(c, 1, IF Len(c) < ColorMaxChars THEN Len(c) ELSE ColorMaxChars) \o <<".", ".", ".">>

\* C20 (as claimed): a color code wider than label_width - 8 is drawn as its
\* first (label_width - 20) / 5 characters followed by "..."; one that is not
\* wider is drawn unchanged.
C20_ColorCutWhenWide ==
    (LabelRendered /\ label_request.kind = "cable") =>
        \A i \in DrawnFor("color_code") :
            label_image.lines[i].text =
                IF ColorTooWide THEN ColorCut ELSE label_request.color_code

\* C20 (amended): a color code wider than label_width - 8 and longer than
\* (label_width - 20) / 5 characters is drawn as its first
\* (label_width - 20) / 5 characters followed by "..."; every other color code
\* is drawn unchanged.
C20_ColorCutWhenWideAndLong ==
    (LabelRendered /\ label_request.kind = "cable") =>
        \A i \in DrawnFor("color_code") :
            label_image.lines[i].text =
                IF ColorTooWide /\ Len(label_request.color_code) > ColorMaxChars
                THEN ColorCut ELSE label_request.color_code

\* A color code of more than (label_width - 20) / 5 characters was cut.
C20_Witness ==
    /\ LabelRendered /\ label_request.kind = "cable"
    /\ ColorTooWide /\ Len(label_request.color_code) > ColorMaxChars
    /\ \E i \in DrawnFor("color_code") : label_image.lines[i].text = ColorCut

CustomRendered == custom_image /= NotCombined

\* C11 (as claimed): every raster produced for printing has the height
\* print_height: the cable, device, warning and text labels, the band of a
\* batch, and the custom label for every canvas setting.
C11_RasterHeight ==
    /\ (LabelRendered /\ label_image.err = "none") => label_image.h = print_height
    /\ (CustomRendered /\ custom_image.err = "none") => custom_image.h = print_height

\* The request is one rect with a fill color followed by one text whose glyphs
\* fall on the filled area, which has other pixels around them.
RectThenText ==
    LET es == custom_request.elements
    IN /\ Len(es) = 2
       /\ es[1].type = "rect" /\ es[1].fillColor \notin {NoColor, "transparent"}
       /\ es[2].type = "text"

GlyphsOnRect ==
    LET es == custom_request.elements
    IN TextInk(es[2]) \cap RectInk(es[1]) \cap Pixels(custom_image.w, custom_image.h)

AroundGlyphs ==
    LET es == custom_request.elements
    IN (RectInk(es[1]) \ TextInk(es[2])) \cap Pixels(custom_image.w, custom_image.h)

\* C15 (as claimed): elements are painted in list order, so that on a label of
\* a filled rect followed by an overlapping text the text is visible: its
\* pixels differ in value from the pixels of the filled rect around them.
C15_TextVisibleOnRect ==
    (CustomRendered /\ custom_image.err = "none" /\ RectThenText /\ GlyphsOnRect /= {}) =>
        \E p \in GlyphsOnRect, q \in AroundGlyphs : custom_image.px[p] /= custom_image.px[q]

\* The positions of the elements whose rendering raises.
Offending == {i \in 1..Len(custom_request.elements) : ElementRaises(custom_request.elements[i])}

\* C16 (as claimed): when the rendering of an element raises,
\* create_custom_label returns no raster, the print-custom request writes no
\* backup and sends nothing, and the failure names the id of the first element
\* that raised.
C16_RenderFailureNamesElement ==
    Offending /= {} =>
        /\ CustomRendered =>
              /\ custom_image.err /= "none"
              /\ custom_image.px = <<>>
              /\ \E k \in 1..Len(custom_image.message) :
                    custom_image.message[k] =
                        custom_request.elements[CHOOSE i \in Offending : \A m \in Offending : i <= m].id
        /\ jobs[1].pc /= "pending" =>
              /\ jobs[1].pc = "done"
              /\ jobs[1].status = 500
              /\ DOMAIN backups = {}
              /\ sends = <<>>

\* One step of the startup of brother_docker_api.py as the claim describes it.
StartupStepAsClaimed ==
    /\ init_pc = "done" => (init_pc' = "done" /\ UNCHANGED <<is_ready, service, attempt>>)
    /\ (init_pc /= "sleep" /\ init_pc' = "sleep") =>
          (init_pc = "attempt" /\ attempt < 4 /\ ~is_ready')
    /\ (init_pc = "sleep" /\ init_pc' /= "sleep") =>
          (init_pc' = "attempt" /\ attempt' = attempt + 1 /\ UNCHANGED <<is_ready, service>>)
    /\ (init_pc = "attempt" /\ init_pc' /= "attempt") =>
          \/ is_ready' /\ init_pc' = "done" /\ service'
          \/ ~is_ready' /\ attempt < 4 /\ init_pc' = "sleep" /\ ~service'
          \/ ~is_ready' /\ attempt = 4 /\ init_pc' = "done" /\ service'

\* C21: the startup loop of brother_docker_api.py makes at most 5 attempts
\* (numbered 0..4) and terminates; a successful attempt ends it; it sleeps only
\* after a failed attempt that is not the last and then makes the next attempt;
\* is_ready is false until an attempt succeeds and true from then on, and when
\* all attempts failed the service object exists with is_ready false.
C21_StartupLoop ==
    /\ [](variant = "docker" =>
             /\ init_pc /= "done" => (attempt \in 0..4 /\ ~is_ready /\ ~service)
             /\ init_pc = "done" => service)
    /\ [][variant = "docker" => StartupStepAsClaimed]_vars
    /\ (variant = "docker" => <>(init_pc = "done"))

\* All five attempts failed: the service object exists and is not ready.
C21_Witness ==
    /\ variant = "docker" /\ init_pc = "done"
    /\ service /\ ~is_ready /\ ~has_printer

Previews == {j \in JobIds : jobs[j].kind = "preview"}

\* C22: a preview request, with the printer ready or not, never reaches the
\* backup or the send: it has no backup file and no print_image call, the step
\* that handles it leaves the backup directory, the printer calls and the
\* printer state as they were, and it ends with the rendered image (200) or
\* with a failure.
C22_PreviewNonPrinting ==
    /\ [](\A j \in Previews :
             /\ jobs[j].pc \in {"pending", "done"}
             /\ jobs[j].file = NoFile
             /\ SendsOf(j) = {}
             /\ \A f \in DOMAIN backups : backups[f].job /= j
             /\ jobs[j].pc = "done" =>
                   /\ jobs[j].status \in {200, 500, 503}
                   /\ jobs[j].status = 200 <=> jobs[j].rendered = 1)
    /\ [][\A j \in Previews :
             jobs'[j].pc /= jobs[j].pc =>
                UNCHANGED <<backups, sends, service, has_printer, is_ready,
                            tape_width, print_height>>]_vars

\* One preview was answered with its image while the printer was not ready,
\* another with a render failure.
C22_Witness ==
    /\ ~is_ready
    /\ \E j, k \in Previews :
          /\ jobs[j].status = 200 /\ jobs[j].rendered = 1
          /\ jobs[k].status = 500

\* The positions of the elements whose type is none of the seven supported.
Unsupported ==
    {i \in 1..Len(custom_request.elements) :
        custom_request.elements[i].type \notin
            {"text", "qr", "barcode", "icon", "line", "rect", "table"}}

\* C23 (as claimed): a custom label with an element of an unsupported type
\* fails to render, the failure naming that element; no raster is returned
\* and the request is never printed.
C23_UnsupportedTypeFails ==
    Unsupported /= {} =>
        /\ CustomRendered =>
              /\ custom_image.err /= "none"
              /\ custom_image.px = <<>>
              /\ \E i \in Unsupported, k \in 1..Len(custom_image.message) :
                    custom_image.message[k] = custom_request.elements[i].id
        /\ jobs[1].pc /= "pending" =>
              /\ jobs[1].pc = "done"
              /\ jobs[1].status \notin {0, 200}
              /\ jobs[1].rendered = 0
              /\ DOMAIN backups = {}
              /\ sends = <<>>
====
